---- MODULE Spec2Model ----
(***************************************************************************)
(* Tweet-Analysis-and-Sentiment-API: the ingestion-and-retrieval pipeline  *)
(* of src/Backend (main.py, database.py, preprocess.py, vader.py,          *)
(* similarity.py) as a state machine.                                      *)
(*                                                                         *)
(* Texts are sequences of one-character strings.  Real numbers are scaled  *)
(* integers: a compound score c stands for c / 10000 (VADER rounds the     *)
(* compound to four decimals), an embedding is a vector of integers.       *)
(***************************************************************************)
EXTENDS Integers, Sequences, FiniteSets, TLC

VARIABLES
    pc,                    \* the server process: "down", "created", "serving", "failed"
    file,                  \* the lines of 17616581.tweets.jl
    sia,                   \* the SentimentIntensityAnalyzer: text -> compound
    entries_table_exists,  \* lifespan's local of that name
    tableExists,           \* entries.db holds the table entries (durable)
    committed,             \* the committed rows of entries, in rowid order (durable)
    seqDurable,            \* the committed sqlite_sequence value of entries
    pending,               \* rows inserted in the connection's open transaction
    seq,                   \* sqlite_sequence as the connection sees it
    ret                    \* what the last call returned or raised

vars == <<pc, file, sia, entries_table_exists, tableExists, committed,
          seqDurable, pending, seq, ret>>

-----------------------------------------------------------------------------
(* Characters and strings                                                  *)

LowerLetters == <<"a","b","c","d","e","f","g","h","i","j","k","l","m",
                  "n","o","p","q","r","s","t","u","v","w","x","y","z">>
UpperLetters == <<"A","B","C","D","E","F","G","H","I","J","K","L","M",
                  "N","O","P","Q","R","S","T","U","V","W","X","Y","Z">>
Digits == <<"0","1","2","3","4","5","6","7","8","9">>

Range(s) == {s[i] : i \in DOMAIN s}

\* \w of Python's re on str: letters, digits and the underscore
WordChars == Range(LowerLetters) \cup Range(UpperLetters) \cup Range(Digits) \cup {"_"}

\* \s of Python's re, and what str.strip() strips
Whitespace == {" ", "\n", "\t", "\r"}

\* str.upper() / str.lower() on one ASCII character
Upper(c) ==
    IF \E i \in DOMAIN LowerLetters : LowerLetters[i] = c
    THEN UpperLetters[CHOOSE i \in DOMAIN LowerLetters : LowerLetters[i] = c]
    ELSE c

Lower(c) ==
    IF \E i \in DOMAIN UpperLetters : UpperLetters[i] = c
    THEN LowerLetters[CHOOSE i \in DOMAIN UpperLetters : UpperLetters[i] = c]
    ELSE c

UpperStr(s) == [i \in DOMAIN s |-> Upper(s[i])]
LowerStr(s) == [i \in DOMAIN s |-> Lower(s[i])]

Drop(s, n) == SubSeq(s, n + 1, Len(s))
Take(s, n) == SubSeq(s, 1, n)

\* str.startswith
StartsWith(s, p) == Len(s) >= Len(p) /\ Take(s, Len(p)) = p

\* the length of the longest prefix of s whose characters are all in set
RECURSIVE SpanLen(_, _)
SpanLen(s, set) ==
    IF s # <<>> /\ Head(s) \in set THEN 1 + SpanLen(Tail(s), set) ELSE 0

\* the length of the longest prefix of s with no character in set
RECURSIVE SpanNotLen(_, _)
SpanNotLen(s, set) ==
    IF s # <<>> /\ Head(s) \notin set THEN 1 + SpanNotLen(Tail(s), set) ELSE 0

\* str.strip()
Strip(s) ==
    LET a == SpanLen(s, Whitespace)
        r == Drop(s, a)
        RECURSIVE TrailLen(_)
        TrailLen(t) ==
            IF t # <<>> /\ t[Len(t)] \in Whitespace
            THEN 1 + TrailLen(Take(t, Len(t) - 1)) ELSE 0
    IN Take(r, Len(r) - TrailLen(r))

-----------------------------------------------------------------------------
(* preprocess.py: the text normalizer                                      *)

\* re.sub(r'@\w+', '', s)
RECURSIVE SubMention(_)
SubMention(s) ==
    IF s = <<>> THEN <<>>
    ELSE IF Head(s) = "@" /\ SpanLen(Tail(s), WordChars) >= 1
         THEN SubMention(Drop(s, 1 + SpanLen(Tail(s), WordChars)))
         ELSE <<Head(s)>> \o SubMention(Tail(s))

\* the number of characters r'http[s]?://\S+' matches at the start of s, 0 if none
UrlMatchLen(s) ==
    LET scheme == IF StartsWith(s, <<"h","t","t","p","s">>) THEN 5
                  ELSE IF StartsWith(s, <<"h","t","t","p">>) THEN 4 ELSE 0
        rest == Drop(s, scheme)
        body == Drop(rest, 3)
    IN IF scheme > 0 /\ StartsWith(rest, <<":","/","/">>)
          /\ SpanNotLen(body, Whitespace) >= 1
       THEN scheme + 3 + SpanNotLen(body, Whitespace)
       ELSE 0

\* re.sub(r'http[s]?://\S+', '', s)
RECURSIVE SubUrl(_)
SubUrl(s) ==
    IF s = <<>> THEN <<>>
    ELSE IF UrlMatchLen(s) > 0 THEN SubUrl(Drop(s, UrlMatchLen(s)))
         ELSE <<Head(s)>> \o SubUrl(Tail(s))

RTPrefix == <<"R","T"," ",":"," ">>

\* x[len('RT : '):] if x.startswith('RT : ') else x
StripRT(s) == IF StartsWith(s, RTPrefix) THEN Drop(s, Len(RTPrefix)) ELSE s

\* re.sub(r'\b#', '', s): \b holds before '#', which is no word character,
\* exactly when the character before it is a word character
SubHash(s) ==
    LET keep(i) == ~(s[i] = "#" /\ i > 1 /\ s[i-1] \in WordChars)
    IN SelectSeq([i \in DOMAIN s |-> <<s[i], keep(i)>>], LAMBDA p : p[2])

SubHashText(s) == [i \in DOMAIN SubHash(s) |-> SubHash(s)[i][1]]

\* s.replace('\n', ' ')
ReplaceNewline(s) == [i \in DOMAIN s |-> IF s[i] = "\n" THEN " " ELSE s[i]]

\* re.sub(r'\s+', ' ', s)
RECURSIVE CollapseWhitespace(_)
CollapseWhitespace(s) ==
    IF s = <<>> THEN <<>>
    ELSE IF Head(s) \in Whitespace
         THEN <<" ">> \o CollapseWhitespace(Drop(s, SpanLen(s, Whitespace)))
         ELSE <<Head(s)>> \o CollapseWhitespace(Tail(s))

\* the acronyms dict of expand_acronyms: its keys in insertion order (the
\* second 'BTW' overwrites the first and keeps its place), and their values
\* (the non-ASCII apostrophe of 'IDK' is written "'")
AcronymKeys ==
    << <<"B","R","B">>, <<"I","D","K">>, <<"B","T","W">>, <<"T","T","Y","L">>,
       <<"I","M","O">>, <<"I","M","H","O">>, <<"F","Y","I">>, <<"T","M","I">>,
       <<"B","Y","O","B">> >>

AcronymValues ==
    << <<"b","e"," ","r","i","g","h","t"," ","b","a","c","k">>,
       <<"I"," ","d","o","n","'","t"," ","k","n","o","w">>,
       <<"b","y"," ","t","h","e"," ","w","a","y">>,
       <<"t","a","l","k"," ","t","o"," ","y","o","u"," ","l","a","t","e","r">>,
       <<"i","n"," ","m","y"," ","o","p","i","n","i","o","n">>,
       <<"i","n"," ","m","y"," ","h","u","m","b","l","e"," ","o","p","i","n","i","o","n">>,
       <<"f","o","r"," ","y","o","u","r"," ","i","n","f","o","r","m","a","t","i","o","n">>,
       <<"t","o","o"," ","m","u","c","h"," ","i","n","f","o","r","m","a","t","i","o","n">>,
       <<"b","r","i","n","g"," ","y","o","u","r"," ","o","w","n"," ","b","e","e","r">> >>

\* the first alternative of 'BRB|IDK|...' that matches at the start of s under
\* re.IGNORECASE, 0 if none
AcronymAt(s) ==
    LET hits == {k \in DOMAIN AcronymKeys :
                    /\ Len(s) >= Len(AcronymKeys[k])
                    /\ UpperStr(Take(s, Len(AcronymKeys[k]))) = AcronymKeys[k]}
    IN IF hits = {} THEN 0 ELSE CHOOSE k \in hits : \A j \in hits : k <= j

\* pattern.sub(lambda x: acronyms[x.group().upper()], text)
RECURSIVE expand_acronyms(_)
expand_acronyms(text) ==
    IF text = <<>> THEN <<>>
    ELSE IF AcronymAt(text) > 0
         THEN AcronymValues[AcronymAt(text)]
                  \o expand_acronyms(Drop(text, Len(AcronymKeys[AcronymAt(text)])))
         ELSE <<Head(text)>> \o expand_acronyms(Tail(text))

\* cleanup, the 'cleaned_text' column of one row (preprocess.py 15-30)
cleanup_text(text) ==
    LET s1 == expand_acronyms(text)
        s2 == Strip(SubMention(s1))
        s3 == Strip(SubUrl(s2))
        s4 == StripRT(s3)
        s5 == SubHashText(s4)
    IN ReplaceNewline(s5)

\* cleanup_single (preprocess.py 36-65)
cleanup_single(tweet) ==
    LET s1 == SubMention(tweet)
        s2 == SubUrl(s1)
        s3 == StripRT(s2)
        s4 == SubHashText(s3)
        s5 == ReplaceNewline(s4)
    IN Strip(CollapseWhitespace(s5))

-----------------------------------------------------------------------------
(* preprocess.py: the date normalizer                                      *)

\* A created_at value is <<Y, m, d>> for a timestamp of the layout
\* 'Mon Jan 22 22:01:10 +0000 2018' (the fields strftime('%Y%m%d') reads), and
\* <<>> for the '' that line['document'].get('created_at', '') gives a
\* document without the key.
NoCreatedAt == <<>>

Digit(n) == Digits[n + 1]

Pad2(n) == <<Digit(n \div 10), Digit(n % 10)>>

Pad4(n) == <<Digit(n \div 1000), Digit((n \div 100) % 10),
             Digit((n \div 10) % 10), Digit(n % 10)>>

\* datetime.strptime(x, '%a %b %d %H:%M:%S %z %Y') raises ValueError
strptime_raises(x) == x = NoCreatedAt

\* datetime.strptime(x, '%a %b %d %H:%M:%S %z %Y').strftime('%Y%m%d')
clean_date(x) == Pad4(x[1]) \o Pad2(x[2]) \o Pad2(x[3])

-----------------------------------------------------------------------------
(* vader.py: the sentiment scorer                                          *)

\* json.dumps / json.loads: the stored text of a value, and the value of a
\* stored text
json_dumps(x) == <<"json", x>>
json_loads(s) == s[2]

\* sia.polarity_scores(text); the neg, neu and pos shares come from the same
\* call and no code of the repository reads them
polarity_scores(text) == [compound |-> sia[text]]

\* the thresholds 0.05 and -0.05 of classify_sentiment, in ten-thousandths
PosThreshold == 500
NegThreshold == -500

classify_sentiment_strict(score) ==
    IF score.compound > PosThreshold THEN "positive"
    ELSE IF score.compound < NegThreshold THEN "negative"
    ELSE "neutral"

classify_sentiment(score) ==
    IF score.compound >= PosThreshold THEN "positive"
    ELSE IF score.compound <= NegThreshold THEN "negative"
    ELSE "neutral"

\* vader_analyze_tweet: (tweet, score, sentiment)
vader_analyze_tweet(tweet) ==
    LET cleaned_tweet == cleanup_single(tweet)
        score == polarity_scores(cleaned_tweet)
    IN [tweet |-> tweet, scored |-> cleaned_tweet, score |-> score,
        sentiment |-> classify_sentiment(score)]

\* vader_analyze_dataframe on one row: the columns scores and sentiment (scored
\* records the string handed to polarity_scores)
vader_analyze_row(row) ==
    LET scores == polarity_scores(row.text)
    IN [scored |-> row.text,
        scores |-> json_dumps(scores),
        sentiment |-> classify_sentiment(scores)] @@ row

-----------------------------------------------------------------------------
(* similarity.py: the embedding generator                                  *)

\* model.encode(text, convert_to_tensor=False).tolist(): the pretrained model
\* is a fixed function of the text; here it reads the first character
model_encode(text) ==
    IF text = <<>> THEN <<1, 1>>
    ELSE CASE Lower(text[1]) = "a" -> <<10, 0>>
           [] Lower(text[1]) = "b" -> <<0, 10>>
           [] Lower(text[1]) = "c" -> <<9, 1>>
           [] Lower(text[1]) = "d" -> <<5, 0>>
           [] OTHER -> <<1, 1>>

\* compute_df_embeddings on one row
compute_row_embedding(row) ==
    [embedding |-> json_dumps(model_encode(row.cleaned_text))] @@ row

-----------------------------------------------------------------------------
(* database.py: the persistent store                                       *)

\* NULL bound to a column (Python's None), for the columns that hold a
\* sequence and for the column sentiment, which holds a label
None == <<"None">>
NoneLabel == "None"

\* the NOT NULL constraints of CREATE TABLE entries
NotNullFails(entry) ==
    \/ entry.text = None
    \/ entry.cleaned_text = None
    \/ entry.scores = None
    \/ entry.sentiment = NoneLabel
    \/ entry.date = None
    \/ entry.cleaned_date = None
    \/ entry.embedding = None

\* what a SELECT on the connection reads: the committed rows and those of its
\* own open transaction, in rowid order
Visible == committed \o pending

\* create_table: whether the table existed; it is created and committed if not
create_table_returns == tableExists

\* the index of the first entry whose INSERT raises, 0 if none does
FirstFailing(entries) ==
    LET bad == {k \in DOMAIN entries : NotNullFails(entries[k])}
    IN IF bad = {} THEN 0 ELSE CHOOSE k \in bad : \A j \in bad : k <= j

add_entries_replacing(entries) ==
    [raised |-> FALSE, ids |-> [i \in DOMAIN entries |-> i],
     committed |-> [i \in DOMAIN entries |-> [id |-> i] @@ entries[i]],
     pending |-> <<>>, seq |-> Len(entries), seqDurable |-> Len(entries)]

\* cur.lastrowid after each of n INSERTs, as ids.append collects them
lastrowids_after_loop(n) == [i \in 1..n |-> seq + n]

lastrowids(n) == [i \in 1..n |-> seq + i]

\* add_entries: the rows its INSERTs add (id INTEGER PRIMARY KEY AUTOINCREMENT
\* gives each the next value of sqlite_sequence), the ids it collects from
\* cur.lastrowid, and the connection and the database after it: conn.commit()
\* runs only when no INSERT raised, and nothing rolls back when one did
add_entries(entries) ==
    LET bad == FirstFailing(entries)
        n == IF bad = 0 THEN Len(entries) ELSE bad - 1
        rows == [i \in 1..n |-> [id |-> seq + i] @@ entries[i]]
        ids == lastrowids(n)
    IN IF bad = 0
       THEN [raised |-> FALSE, ids |-> ids,
             committed |-> committed \o pending \o rows, pending |-> <<>>,
             seq |-> seq + n, seqDurable |-> seq + n]
       ELSE [raised |-> TRUE, ids |-> ids,
             committed |-> committed, pending |-> pending \o rows,
             seq |-> seq + n, seqDurable |-> seqDurable]

\* the explicit empty result
NoRow == [none |-> TRUE]

\* SELECT id, text, scores, sentiment FROM entries WHERE id = ?, fetchone(),
\* and the json.loads of the scores
select_entry_by_id(id) ==
    LET hit == SelectSeq(Visible, LAMBDA r : r.id = id)
    IN IF hit = <<>> THEN NoRow
       ELSE [none |-> FALSE, id |-> hit[1].id, text |-> hit[1].text,
             scores |-> json_loads(hit[1].scores), sentiment |-> hit[1].sentiment]

random_ids_from_zero(count) == 0..count

\* random.randint(1, count)
random_ids(count) == 1..count

\* get_random_entry: every value it may return
get_random_entry ==
    LET count == Len(Visible)
    IN IF count = 0 THEN {NoRow}
       ELSE {select_entry_by_id(random_id) : random_id \in random_ids(count)}

-----------------------------------------------------------------------------
(* main.py: lifespan                                                       *)

\* the columns of one DataFrame row lifespan builds from one line of the
\* file, through cleanup, vader_analyze_dataframe and compute_df_embeddings
cleanup_row(row) ==
    [cleaned_text |-> cleanup_text(row.text),
     cleaned_date |-> clean_date(row.date)] @@ row

\* df[['text', 'cleaned_text', 'scores', 'sentiment', 'date', 'cleaned_date',
\*     'embedding']].values.tolist(), one row of it
entry_of(row) ==
    [text |-> row.text, cleaned_text |-> row.cleaned_text, scores |-> row.scores,
     sentiment |-> row.sentiment, date |-> row.date,
     cleaned_date |-> row.cleaned_date, embedding |-> row.embedding]

\* text_and_created: (created_at, text) of the lines whose lang is "en"
text_and_created(data) ==
    LET en == SelectSeq(data, LAMBDA line : line.lang = "en")
    IN [i \in DOMAIN en |-> [date |-> en[i].created_at, text |-> en[i].text]]

\* cleanup(df) raises: clean_date_column's strptime rejects some date
cleanup_raises(df) == \E i \in DOMAIN df : strptime_raises(df[i].date)

\* entries_data of lifespan
entries_data(df) ==
    [i \in DOMAIN df |->
        entry_of(compute_row_embedding(vader_analyze_row(cleanup_row(df[i]))))]

NoRet == [op |-> "none"]

\* conn.close() or the end of the process: the open transaction is rolled back
Closed ==
    /\ pending' = <<>>
    /\ seq' = seqDurable

\* lifespan, lines 49-56: connect, create the table if it is absent
LifespanStartup ==
    /\ pc = "down"
    /\ pc' = "created"
    /\ entries_table_exists' = create_table_returns
    /\ tableExists' = TRUE
    /\ pending' = <<>>
    /\ seq' = seqDurable
    /\ ret' = NoRet
    /\ UNCHANGED <<file, sia, committed, seqDurable>>

\* lifespan, lines 58-87: the bulk ingestion of a process that found no table
LifespanIngest ==
    /\ pc = "created"
    /\ ~entries_table_exists
    /\ LET df == text_and_created(file)
       IN IF cleanup_raises(df)
          THEN /\ pc' = "failed"
               /\ ret' = [op |-> "lifespan", raised |-> TRUE]
               /\ UNCHANGED <<committed, seqDurable, pending, seq>>
          ELSE LET r == add_entries(entries_data(df))
               IN /\ pc' = IF r.raised THEN "failed" ELSE "serving"
                  /\ ret' = [op |-> "lifespan", raised |-> r.raised]
                  /\ committed' = r.committed
                  /\ seqDurable' = r.seqDurable
                  /\ pending' = r.pending
                  /\ seq' = r.seq
    /\ UNCHANGED <<file, sia, entries_table_exists, tableExists>>

\* lifespan, line 58 false: the table existed, nothing is ingested
LifespanSkip ==
    /\ pc = "created"
    /\ entries_table_exists
    /\ pc' = "serving"
    /\ UNCHANGED <<file, sia, entries_table_exists, tableExists, committed,
                   seqDurable, pending, seq, ret>>

\* the exception leaves lifespan: the application does not start, the process ends
ProcessExit ==
    /\ pc = "failed"
    /\ pc' = "down"
    /\ Closed
    /\ UNCHANGED <<file, sia, entries_table_exists, tableExists, committed,
                   seqDurable, ret>>

\* lifespan, lines 91-92: shutdown closes the connection
LifespanShutdown ==
    /\ pc = "serving"
    /\ pc' = "down"
    /\ Closed
    /\ UNCHANGED <<file, sia, entries_table_exists, tableExists, committed,
                   seqDurable, ret>>

-----------------------------------------------------------------------------
(* main.py: the request handlers                                           *)

accepting_requests_early == pc \in {"created", "serving"}

\* the application takes requests once lifespan has reached its yield, and
\* until the shutdown
accepting_requests == pc = "serving"

\* GET /entries/random
read_random_entry ==
    /\ accepting_requests
    /\ \E row \in get_random_entry :
          ret' = IF row = NoRow
                 THEN [op |-> "read_random_entry", status |-> 404]
                 ELSE [op |-> "read_random_entry", status |-> 200,
                       text |-> row.text, scores |-> row.scores,
                       sentiment |-> row.sentiment]
    /\ UNCHANGED <<pc, file, sia, entries_table_exists, tableExists, committed,
                   seqDurable, pending, seq>>

\* GET /process_string
process_string(input_string) ==
    /\ accepting_requests
    /\ LET r == vader_analyze_tweet(input_string)
       IN ret' = [op |-> "process_string", text |-> r.tweet, scored |-> r.scored,
                  score |-> r.score, sentiment |-> r.sentiment]
    /\ UNCHANGED <<pc, file, sia, entries_table_exists, tableExists, committed,
                   seqDurable, pending, seq>>

-----------------------------------------------------------------------------
(* The server: any file of at most MaxFile lines, any scorer                *)

MaxFile == 2

SeqsUpTo(S, n) == UNION {[1..k -> S] : k \in 0..n}

TweetMention == <<"@","a"," ","b">>
TweetPlain == <<"b">>

\* the strings the scorer is given: the raw texts and their cleanup_single
ScoredStrings == {TweetMention, TweetPlain}

\* compound scores around the two thresholds
Compounds == {NegThreshold, NegThreshold + 1, 0, PosThreshold - 1, PosThreshold}

Lines ==
    { [lang |-> "en", created_at |-> <<2018, 1, 15>>, text |-> TweetMention],
      [lang |-> "en", created_at |-> <<2018, 2, 1>>, text |-> TweetPlain],
      [lang |-> "en", created_at |-> NoCreatedAt, text |-> TweetPlain],
      [lang |-> "fr", created_at |-> <<2018, 1, 15>>, text |-> TweetPlain] }

Init ==
    /\ pc = "down"
    /\ file \in SeqsUpTo(Lines, MaxFile)
    /\ sia \in [ScoredStrings -> Compounds]
    /\ entries_table_exists = FALSE
    /\ tableExists = FALSE
    /\ committed = <<>>
    /\ seqDurable = 0
    /\ pending = <<>>
    /\ seq = 0
    /\ ret = NoRet

Next ==
    \/ LifespanStartup
    \/ LifespanIngest
    \/ LifespanSkip
    \/ ProcessExit
    \/ LifespanShutdown
    \/ read_random_entry
    \/ \E t \in ScoredStrings : process_string(t)

Spec == Init /\ [][Next]_vars

\* C1: a startup runs the bulk ingestion if and only if the store holds no
\* row at that moment (pc = "created" is the startup that has decided)
C1_IngestIffEmpty ==
    pc = "created" => (~entries_table_exists <=> Len(committed) = 0)

-----------------------------------------------------------------------------
(* database.py called on one connection: any sequence of add_entries,      *)
(* get_random_entry and reconnections on a database that holds the table   *)

MaxRows == 4
MaxBatch == 2

\* an entry as lifespan builds it from a line with this text
PipelineEntry(text, created_at) ==
    entry_of(compute_row_embedding(vader_analyze_row(
        cleanup_row([date |-> created_at, text |-> text]))))

\* an entry whose text is None: its INSERT violates text TEXT NOT NULL
NullTextEntry ==
    [PipelineEntry(TweetPlain, <<2018, 1, 15>>) EXCEPT !.text = None]

DbEntries ==
    { PipelineEntry(TweetMention, <<2018, 1, 15>>),
      PipelineEntry(TweetPlain, <<2018, 2, 1>>),
      NullTextEntry }

\* await add_entries(conn, entries)
AddEntries(entries) ==
    /\ tableExists
    /\ Len(Visible) + Len(entries) <= MaxRows
    /\ LET r == add_entries(entries)
       IN /\ ret' = [op |-> "add_entries", entries |-> entries,
                     raised |-> r.raised,
                     ids |-> IF r.raised THEN <<>> ELSE r.ids,
                     before |-> Visible, committedBefore |-> committed]
          /\ committed' = r.committed
          /\ seqDurable' = r.seqDurable
          /\ pending' = r.pending
          /\ seq' = r.seq
    /\ UNCHANGED <<pc, file, sia, entries_table_exists, tableExists>>

\* await get_random_entry(conn)
GetRandomEntry ==
    /\ tableExists
    /\ \E row \in get_random_entry :
          ret' = [op |-> "get_random_entry", value |-> row]
    /\ UNCHANGED <<pc, file, sia, entries_table_exists, tableExists, committed,
                   seqDurable, pending, seq>>

\* await conn.close(), then create_connection again
Reconnect ==
    /\ Closed
    /\ ret' = [op |-> "create_connection"]
    /\ UNCHANGED <<pc, file, sia, entries_table_exists, tableExists, committed,
                   seqDurable>>

\* the server of an empty file, serving: the table exists and holds no row
InitDb ==
    /\ pc = "serving"
    /\ file = <<>>
    /\ sia \in [ScoredStrings -> {0}]
    /\ entries_table_exists = FALSE
    /\ tableExists = TRUE
    /\ committed = <<>>
    /\ seqDurable = 0
    /\ pending = <<>>
    /\ seq = 0
    /\ ret = NoRet

NextDb ==
    \/ \E entries \in SeqsUpTo(DbEntries, MaxBatch) : AddEntries(entries)
    \/ GetRandomEntry
    \/ Reconnect

SpecDb == InitDb /\ [][NextDb]_vars

\* C2: add_entries is all-or-nothing: after a call that raised, no entry of
\* the batch is in the store, neither committed nor visible on the
\* connection; after a call that returned, the whole batch is committed
C2_AllOrNothing ==
    ret.op = "add_entries" =>
        /\ ret.raised => (Visible = ret.before /\ committed = ret.committedBefore)
        /\ ~ret.raised =>
              (pending = <<>> /\ Len(committed) = Len(ret.before) + Len(ret.entries))

\* C3: a call of add_entries that returns has appended the entries in input
\* order and returns one id per entry, the i-th the id of the i-th entry,
\* the ids increasing by exactly 1 and greater than every id that was in the
\* store; and the ids in the store are always exactly 1..count
C3_SequentialIds ==
    /\ {Visible[i].id : i \in DOMAIN Visible} = 1..Len(Visible)
    /\ (ret.op = "add_entries" /\ ~ret.raised) =>
          /\ Len(ret.ids) = Len(ret.entries)
          /\ Len(Visible) = Len(ret.before) + Len(ret.entries)
          /\ Take(Visible, Len(ret.before)) = ret.before
          /\ \A i \in DOMAIN ret.entries :
                LET row == Visible[Len(ret.before) + i]
                IN row.id = ret.ids[i] /\ entry_of(row) = ret.entries[i]
          /\ \A i \in 1..(Len(ret.ids) - 1) : ret.ids[i + 1] = ret.ids[i] + 1
          /\ \A i \in DOMAIN ret.ids : \A j \in DOMAIN ret.before :
                ret.ids[i] > ret.before[j].id

\* C3 witness: a batch of two entries was added to a store that held rows
C3_Witness ==
    /\ ret.op = "add_entries"
    /\ ~ret.raised
    /\ Len(ret.entries) = 2
    /\ Len(ret.before) >= 1

\* the (id, text, scores, sentiment) of a stored row
EntryTuple(row) ==
    [none |-> FALSE, id |-> row.id, text |-> row.text,
     scores |-> row.scores[2], sentiment |-> row.sentiment]

\* C4: get_random_entry returns the empty result exactly when the store
\* holds no row; otherwise it returns a row of the store, and every row of
\* the store is a possible outcome
C4_RandomEntry ==
    /\ get_random_entry =
          IF Len(Visible) = 0 THEN {NoRow}
          ELSE {EntryTuple(Visible[i]) : i \in DOMAIN Visible}
    /\ ret.op = "get_random_entry" =>
          /\ ret.value = NoRow <=> Len(Visible) = 0
          /\ ret.value # NoRow =>
                \E i \in DOMAIN Visible : ret.value = EntryTuple(Visible[i])

\* C4 witness: the second of several rows was returned
C4_Witness ==
    /\ ret.op = "get_random_entry"
    /\ Len(Visible) >= 2
    /\ ret.value # NoRow
    /\ ret.value.id = 2

-----------------------------------------------------------------------------
(* database.py: filter_entries_by_date                                     *)

IsDigit(c) == c \in Range(Digits)

DigitValue(c) == (CHOOSE i \in DOMAIN Digits : Digits[i] = c) - 1

RECURSIVE Number(_)
Number(s) ==
    IF s = <<>> THEN 0 ELSE 10 * Number(Take(s, Len(s) - 1)) + DigitValue(s[Len(s)])

IsLeap(y) == (y % 4 = 0 /\ y % 100 # 0) \/ y % 400 = 0

DaysInMonth(y, m) ==
    IF m = 2 THEN (IF IsLeap(y) THEN 29 ELSE 28)
    ELSE IF m \in {4, 6, 9, 11} THEN 30 ELSE 31

\* how many characters the regex of %m, (1[0-2]|0[1-9]|[1-9]), may take at
\* the start of s, in the order its alternatives are tried
MonthLens(s) ==
    LET two == /\ Len(s) >= 2
               /\ \/ s[1] = "1" /\ s[2] \in {"0", "1", "2"}
                  \/ s[1] = "0" /\ IsDigit(s[2]) /\ s[2] # "0"
        one == Len(s) >= 1 /\ IsDigit(s[1]) /\ s[1] # "0"
    IN (IF two THEN <<2>> ELSE <<>>) \o (IF one THEN <<1>> ELSE <<>>)

\* the same for %d, (3[0-1]|[1-2]\d|0[1-9]|[1-9]| [1-9])
DayLens(s) ==
    LET two == /\ Len(s) >= 2
               /\ \/ s[1] = "3" /\ s[2] \in {"0", "1"}
                  \/ s[1] \in {"1", "2"} /\ IsDigit(s[2])
                  \/ s[1] = "0" /\ IsDigit(s[2]) /\ s[2] # "0"
        one == Len(s) >= 1 /\ IsDigit(s[1]) /\ s[1] # "0"
        sp  == Len(s) >= 2 /\ s[1] = " " /\ IsDigit(s[2]) /\ s[2] # "0"
    IN (IF two THEN <<2>> ELSE <<>>) \o (IF one THEN <<1>> ELSE <<>>)
          \o (IF sp THEN <<2>> ELSE <<>>)

\* datetime.strptime(s, '%Y%m%d'): <<Y, m, d>>, or <<>> when it raises
\* ValueError.  The regex (\d\d\d\d)(month)(day) is matched at the start of
\* s, the first alternatives that match win, and characters left over
\* ("unconverted data remains") or a date that does not exist raise.
strptime_Ymd(s) ==
    IF ~(Len(s) >= 4 /\ \A i \in 1..4 : IsDigit(s[i])) THEN <<>>
    ELSE LET rest == Drop(s, 4)
             found == {<<a, b>> \in (DOMAIN MonthLens(rest)) \X (1..3) :
                          b \in DOMAIN DayLens(Drop(rest, MonthLens(rest)[a]))}
         IN IF found = {} THEN <<>>
            ELSE LET first == CHOOSE f \in found : \A g \in found :
                                  f[1] < g[1] \/ (f[1] = g[1] /\ f[2] <= g[2])
                     mlen == MonthLens(rest)[first[1]]
                     dpart == Drop(rest, mlen)
                     dlen == DayLens(dpart)[first[2]]
                     Y == Number(Take(s, 4))
                     m == Number(Take(rest, mlen))
                     d == Number(SelectSeq(Take(dpart, dlen), IsDigit))
                 IN IF 4 + mlen + dlen # Len(s) THEN <<>>
                    ELSE IF Y < 1 \/ d > DaysInMonth(Y, m) THEN <<>>
                    ELSE <<Y, m, d>>

\* the comparison of two TEXT values under SQLite's BINARY collation, and of
\* two Python strings: a <= b
RECURSIVE StrLeq(_, _)
StrLeq(a, b) ==
    IF a = <<>> THEN TRUE
    ELSE IF b = <<>> THEN FALSE
    ELSE IF Head(a) = Head(b) THEN StrLeq(Tail(a), Tail(b))
    ELSE \E i, j \in DOMAIN Digits : Digits[i] = Head(a) /\ Digits[j] = Head(b) /\ i < j

SortedByDate_unsorted(rows) == rows

\* sorted(rows, key=lambda row: row[4]): a stable sort by cleaned_date
RECURSIVE SortedByDate(_)
SortedByDate(rows) ==
    IF rows = <<>> THEN <<>>
    ELSE LET last == rows[Len(rows)]
             init == SortedByDate(Take(rows, Len(rows) - 1))
             k == Cardinality({i \in DOMAIN init :
                                  StrLeq(init[i].cleaned_date, last.cleaned_date)})
         IN Take(init, k) \o <<last>> \o Drop(init, k)

\* (id, text, scores, sentiment, cleaned_date) of a row, scores json.loads-ed
DateTuple(row) ==
    [id |-> row.id, text |-> row.text, scores |-> json_loads(row.scores),
     sentiment |-> row.sentiment, cleaned_date |-> row.cleaned_date]

\* filter_entries_by_date: whether it raises ValueError, and the rows it returns
filter_entries_by_date(start_date, end_date) ==
    IF strptime_Ymd(start_date) = <<>> \/ strptime_Ymd(end_date) = <<>>
    THEN [raised |-> TRUE, rows |-> <<>>]
    ELSE LET hits == SelectSeq(Visible, LAMBDA r :
                        /\ StrLeq(start_date, r.cleaned_date)
                        /\ StrLeq(r.cleaned_date, end_date))
             rows == [i \in DOMAIN hits |-> DateTuple(hits[i])]
         IN [raised |-> FALSE,
             rows |-> SortedByDate(rows)]

\* the Query(..., regex=r"^\d{8}$") of filter_dates
MatchesEightDigits(s) == Len(s) = 8 /\ \A i \in DOMAIN s : IsDigit(s[i])

\* await filter_entries_by_date(conn, start_date, end_date)
FilterEntriesByDate(start_date, end_date) ==
    /\ tableExists
    /\ LET r == filter_entries_by_date(start_date, end_date)
       IN ret' = [op |-> "filter_entries_by_date", start |-> start_date,
                  end |-> end_date, raised |-> r.raised, rows |-> r.rows]
    /\ UNCHANGED <<pc, file, sia, entries_table_exists, tableExists, committed,
                   seqDurable, pending, seq>>

\* GET /filter_dates: 422 from the parameter validation, 400 from the
\* ValueError of filter_entries_by_date
filter_dates(start_date, end_date) ==
    /\ accepting_requests
    /\ LET r == filter_entries_by_date(start_date, end_date)
       IN ret' = IF ~(MatchesEightDigits(start_date) /\ MatchesEightDigits(end_date))
                 THEN [op |-> "filter_dates", start |-> start_date,
                       end |-> end_date, status |-> 422, rows |-> <<>>]
                 ELSE IF r.raised
                 THEN [op |-> "filter_dates", start |-> start_date,
                       end |-> end_date, status |-> 400, rows |-> <<>>]
                 ELSE [op |-> "filter_dates", start |-> start_date,
                       end |-> end_date, status |-> 200, rows |-> r.rows]
    /\ UNCHANGED <<pc, file, sia, entries_table_exists, tableExists, committed,
                   seqDurable, pending, seq>>

MaxDateRows == 2

\* the created_at dates of the stored rows
StoredDates == {<<2017, 12, 31>>, <<2018, 1, 15>>, <<2018, 2, 1>>}

\* the start_date and end_date arguments: three dates in YYYYMMDD form, a
\* 7-digit string, a month 13, a 30 February and a 6-digit string
DateArgs ==
    { clean_date(<<2017, 12, 31>>), clean_date(<<2018, 1, 15>>),
      clean_date(<<2018, 1, 31>>),
      <<"2","0","1","8","1","1","5">>,
      <<"2","0","1","8","1","3","0","1">>,
      <<"2","0","1","8","0","2","3","0">>,
      <<"2","0","1","8","0","1">> }

\* the rows add_entries commits for these texts and dates, as the store
\* holds them after an ingestion
IngestedRows(texts, dates) ==
    [i \in DOMAIN dates |-> [id |-> i] @@ PipelineEntry(texts[i], dates[i])]

\* a serving process whose store holds any rows with these dates
InitDate ==
    /\ pc = "serving"
    /\ file = <<>>
    /\ sia \in [{TweetPlain} -> {0}]
    /\ entries_table_exists = TRUE
    /\ tableExists = TRUE
    /\ \E dates \in SeqsUpTo(StoredDates, MaxDateRows) :
          /\ committed = IngestedRows([i \in DOMAIN dates |-> TweetPlain], dates)
          /\ seqDurable = Len(dates)
          /\ seq = Len(dates)
    /\ pending = <<>>
    /\ ret = NoRet

NextDate ==
    \/ \E a, b \in DateArgs : FilterEntriesByDate(a, b)
    \/ \E a, b \in DateArgs : filter_dates(a, b)

SpecDate == InitDate /\ [][NextDate]_vars

\* an 8-digit string that denotes a real calendar date in YYYYMMDD form
IsYYYYMMDD(s) ==
    /\ Len(s) = 8
    /\ \A i \in DOMAIN s : IsDigit(s[i])
    /\ LET Y == Number(SubSeq(s, 1, 4))
           m == Number(SubSeq(s, 5, 6))
           d == Number(SubSeq(s, 7, 8))
       IN Y >= 1 /\ m \in 1..12 /\ d \in 1..DaysInMonth(Y, m)

\* C5: for valid start and end, filter_entries_by_date returns exactly the
\* rows whose date lies in [start, end], both inclusive, each once, in
\* ascending order of cleaned_date, and none when start > end
C5_DateFilter ==
    (ret.op = "filter_entries_by_date" /\ IsYYYYMMDD(ret.start) /\ IsYYYYMMDD(ret.end)) =>
        LET inRange == {i \in DOMAIN Visible :
                           /\ Number(ret.start) <= Number(Visible[i].cleaned_date)
                           /\ Number(Visible[i].cleaned_date) <= Number(ret.end)}
        IN /\ ~ret.raised
           /\ Len(ret.rows) = Cardinality(inRange)
           /\ \A i \in inRange : \E k \in DOMAIN ret.rows :
                 /\ ret.rows[k].id = Visible[i].id
                 /\ ret.rows[k].text = Visible[i].text
                 /\ ret.rows[k].cleaned_date = Visible[i].cleaned_date
           /\ \A k, l \in DOMAIN ret.rows :
                 k < l => /\ ret.rows[k].id # ret.rows[l].id
                          /\ Number(ret.rows[k].cleaned_date) <= Number(ret.rows[l].cleaned_date)
           /\ Number(ret.start) > Number(ret.end) => ret.rows = <<>>

\* C5 witness: two rows came back in the other order than they are stored,
\* the first dated start and the second dated end
C5_Witness ==
    /\ ret.op = "filter_entries_by_date"
    /\ ~ret.raised
    /\ Len(ret.rows) = 2
    /\ ret.rows[1].id > ret.rows[2].id
    /\ ret.rows[1].cleaned_date = ret.start
    /\ ret.rows[2].cleaned_date = ret.end
    /\ ret.start # ret.end

\* C6: filter_entries_by_date raises the invalid-date error, and returns no
\* row, exactly when start or end is not an 8-digit string that denotes a
\* real calendar date
C6_InvalidDateRejected ==
    ret.op = "filter_entries_by_date" =>
        /\ ret.raised <=> ~(IsYYYYMMDD(ret.start) /\ IsYYYYMMDD(ret.end))
        /\ ret.raised => ret.rows = <<>>

-----------------------------------------------------------------------------
(* database.py: search_tweets_by_keyword                                   *)

\* SQLite's LIKE: % matches any run of characters, _ any one character, any
\* other character itself, ASCII letters without regard to case
RECURSIVE LikeMatch(_, _)
LikeMatch(pattern, s) ==
    IF pattern = <<>> THEN s = <<>>
    ELSE IF Head(pattern) = "%"
         THEN \E k \in 0..Len(s) : LikeMatch(Tail(pattern), Drop(s, k))
    ELSE IF s = <<>> THEN FALSE
    ELSE IF Head(pattern) = "_" THEN LikeMatch(Tail(pattern), Tail(s))
    ELSE Lower(Head(pattern)) = Lower(Head(s)) /\ LikeMatch(Tail(pattern), Tail(s))

\* search_tweets_by_keyword: SELECT id, text ... WHERE cleaned_text LIKE
\* '%' + keyword + '%'
search_tweets_by_keyword(keyword) ==
    LET hits == SelectSeq(Visible, LAMBDA r :
                    LikeMatch(<<"%">> \o keyword \o <<"%">>, r.cleaned_text))
    IN [i \in DOMAIN hits |-> [id |-> hits[i].id, text |-> hits[i].text]]

\* await search_tweets_by_keyword(conn, keyword)
SearchTweetsByKeyword(keyword) ==
    /\ tableExists
    /\ ret' = [op |-> "search_tweets_by_keyword", keyword |-> keyword,
               rows |-> search_tweets_by_keyword(keyword)]
    /\ UNCHANGED <<pc, file, sia, entries_table_exists, tableExists, committed,
                   seqDurable, pending, seq>>

MaxKeywordRows == 2

\* texts that cleanup leaves as they are: "Dope", "ab", "5%", "a_"
KeywordTexts ==
    { <<"D","o","p","e">>, <<"a","b">>, <<"5","%">>, <<"a","_">> }

Keywords ==
    { <<"D","O","P","E">>, <<"o","p">>, <<"B">>, <<"%">>, <<"_">>, <<"x">>,
      <<"a","_">>, <<>> }

\* a serving process whose store holds any rows with these texts
InitKeyword ==
    /\ pc = "serving"
    /\ file = <<>>
    /\ sia \in [KeywordTexts -> {0}]
    /\ entries_table_exists = TRUE
    /\ tableExists = TRUE
    /\ \E texts \in SeqsUpTo(KeywordTexts, MaxKeywordRows) :
          /\ committed = IngestedRows(texts, [i \in DOMAIN texts |-> <<2018, 1, 15>>])
          /\ seqDurable = Len(texts)
          /\ seq = Len(texts)
    /\ pending = <<>>
    /\ ret = NoRet

NextKeyword == \E keyword \in Keywords : SearchTweetsByKeyword(keyword)

SpecKeyword == InitKeyword /\ [][NextKeyword]_vars

\* s contains k as a substring, ASCII letters without regard to case
ContainsNoCase(s, k) ==
    \E i \in 0..(Len(s) - Len(k)) :
        LowerStr(SubSeq(s, i + 1, i + Len(k))) = LowerStr(k)

\* C7: search_tweets_by_keyword returns the (id, text) of exactly the rows
\* whose cleaned_text contains the keyword as a literal substring, without
\* regard to case
C7_LiteralSubstring ==
    ret.op = "search_tweets_by_keyword" =>
        LET hits == SelectSeq(Visible, LAMBDA r : ContainsNoCase(r.cleaned_text, ret.keyword))
        IN ret.rows = [i \in DOMAIN hits |-> [id |-> hits[i].id, text |-> hits[i].text]]

-----------------------------------------------------------------------------
(* similarity.py: get_top_n_similar_texts, and GET /top_n_similar_texts    *)

Dot(a, b) == a[1] * b[1] + a[2] * b[2]

\* cosine_similarity([q], [e1]) > cosine_similarity([q], [e2]), for vectors
\* that are not zero: q.e1 / |e1| > q.e2 / |e2|, compared without the roots
SimGreater(q, e1, e2) ==
    LET n1 == Dot(q, e1)
        n2 == Dot(q, e2)
        l == n1 * n1 * Dot(e2, e2)
        r == n2 * n2 * Dot(e1, e1)
    IN IF n1 >= 0 /\ n2 < 0 THEN TRUE
       ELSE IF n1 < 0 /\ n2 >= 0 THEN FALSE
       ELSE IF n1 >= 0 THEN l > r
       ELSE l < r

\* the rows of df in descending order of similarity, equal similarities in
\* the order of df: argsort(kind="mergesort") of the negated similarities
RECURSIVE StableDescending(_, _, _)
StableDescending(df, q, k) ==
    IF k = 0 THEN <<>>
    ELSE LET init == StableDescending(df, q, k - 1)
             ahead == Cardinality({i \in DOMAIN init :
                          ~SimGreater(q, df[k].embedding, df[init[i]].embedding)})
         IN Take(init, ahead) \o <<k>> \o Drop(init, ahead)

\* the orders of all rows of df that descend in similarity: what
\* sort_values(ascending=False) may give, its quicksort being no stable sort
DescendingOrders(df, q) ==
    {o \in [DOMAIN df -> DOMAIN df] :
        /\ \A i, j \in DOMAIN df : i # j => o[i] # o[j]
        /\ \A i, j \in DOMAIN df :
              i < j => ~SimGreater(q, df[o[j]].embedding, df[o[i]].embedding)}

\* df.nlargest(top_n, 'similarity'), as the row numbers of df: pandas sorts
\* the whole column with sort_values when top_n >= len(df), and otherwise
\* selects the top_n largest and orders them with a stable sort
nlargest(df, q, top_n) ==
    IF top_n >= Len(df) THEN DescendingOrders(df, q)
    ELSE {Take(StableDescending(df, q, Len(df)), top_n)}

\* get_top_n_similar_texts: every result it may give; np.vstack raises
\* ValueError on a DataFrame without rows
get_top_n_similar_texts(df, input_text, top_n) ==
    LET input_embedding == model_encode(input_text)
    IN IF Len(df) = 0 THEN {[raised |-> TRUE, order |-> <<>>, texts |-> <<>>]}
       ELSE {[raised |-> FALSE, order |-> o,
              texts |-> [i \in DOMAIN o |-> df[o[i]].text]] :
                 o \in nlargest(df, input_embedding, top_n)}

select_every_row(id) == Visible

\* SELECT text, embedding FROM entries WHERE id != ?
select_other_rows(id) == SelectSeq(Visible, LAMBDA r : r.id # id)

\* GET /top_n_similar_texts: 404 when no row has the id, 500 when
\* get_top_n_similar_texts raises
top_n_similar_texts(id, top_n) ==
    /\ accepting_requests
    /\ LET row == SelectSeq(Visible, LAMBDA r : r.id = id)
           all_texts == select_other_rows(id)
           df == [i \in DOMAIN all_texts |->
                     [text |-> all_texts[i].text,
                      embedding |-> json_loads(all_texts[i].embedding)]]
       IN IF row = <<>>
          THEN ret' = [op |-> "top_n_similar_texts", id |-> id, top_n |-> top_n,
                       status |-> 404]
          ELSE \E r \in get_top_n_similar_texts(df, row[1].cleaned_text, top_n) :
                  ret' = [op |-> "top_n_similar_texts", id |-> id, top_n |-> top_n,
                          status |-> IF r.raised THEN 500 ELSE 200,
                          query |-> model_encode(row[1].cleaned_text),
                          df |-> df, order |-> r.order, texts |-> r.texts]
    /\ UNCHANGED <<pc, file, sia, entries_table_exists, tableExists, committed,
                   seqDurable, pending, seq>>

MaxSimRows == 3
MaxTopN == 3

\* texts that cleanup leaves as they are, with the embeddings <<10, 0>>,
\* <<0, 10>>, <<9, 1>> and <<5, 0>>
SimTexts == { <<"a">>, <<"b">>, <<"c">>, <<"d">> }

\* a serving process whose store holds any rows with these texts
InitSim ==
    /\ pc = "serving"
    /\ file = <<>>
    /\ sia \in [SimTexts -> {0}]
    /\ entries_table_exists = TRUE
    /\ tableExists = TRUE
    /\ \E texts \in SeqsUpTo(SimTexts, MaxSimRows) :
          /\ committed = IngestedRows(texts, [i \in DOMAIN texts |-> <<2018, 1, 15>>])
          /\ seqDurable = Len(texts)
          /\ seq = Len(texts)
    /\ pending = <<>>
    /\ ret = NoRet

NextSim ==
    \E id \in 1..(MaxSimRows + 1), top_n \in 1..MaxTopN : top_n_similar_texts(id, top_n)

SpecSim == InitSim /\ [][NextSim]_vars

\* C8: for 1 <= n <= the corpus size, the n texts returned descend in
\* similarity, no text left out is more similar than one returned, and texts
\* of equal similarity come in corpus order
C8_TopNStable ==
    (/\ ret.op = "top_n_similar_texts"
     /\ ret.status = 200
     /\ ret.top_n <= Len(ret.df)) =>
        LET e(i) == ret.df[i].embedding
            o == ret.order
        IN /\ Len(ret.texts) = ret.top_n
           /\ Len(o) = ret.top_n
           /\ \A i \in DOMAIN o : o[i] \in DOMAIN ret.df /\ ret.texts[i] = ret.df[o[i]].text
           /\ \A i, j \in DOMAIN o : i < j =>
                 /\ o[i] # o[j]
                 /\ ~SimGreater(ret.query, e(o[j]), e(o[i]))
                 /\ ~SimGreater(ret.query, e(o[i]), e(o[j])) => o[i] < o[j]
           /\ \A x \in DOMAIN ret.df : \A i \in DOMAIN o :
                 SimGreater(ret.query, e(x), e(o[i])) => \E j \in DOMAIN o : o[j] = x

-----------------------------------------------------------------------------
(* The sentiment label, checked on the server (Spec)                       *)

\* C9: the label is "positive" exactly when compound >= 0.05, "negative"
\* exactly when compound <= -0.05 and "neutral" otherwise, for every stored
\* row (its stored scores read back) and for every answer of process_string
C9_LabelOfCompound ==
    LET label(c) == IF c >= 500 THEN "positive"
                    ELSE IF c <= -500 THEN "negative" ELSE "neutral"
    IN /\ \A i \in DOMAIN Visible :
             Visible[i].sentiment = label(json_loads(Visible[i].scores).compound)
       /\ ret.op = "process_string" => ret.sentiment = label(ret.score.compound)
       /\ (ret.op = "read_random_entry" /\ ret.status = 200) =>
             ret.sentiment = label(ret.scores.compound)

\* C9 witness: a stored row scored exactly 0.05 is positive, and
\* process_string answered negative for a text scored exactly -0.05
C9_Witness ==
    /\ \E i \in DOMAIN Visible :
          /\ json_loads(Visible[i].scores).compound = 500
          /\ Visible[i].sentiment = "positive"
    /\ ret.op = "process_string"
    /\ ret.score.compound = -500
    /\ ret.sentiment = "negative"

\* C10: for the text of a process_string request, vader_analyze_dataframe on
\* a row with that text gives the scorer the same string, and so the same
\* scores and the same label
C10_SameScoringInput ==
    ret.op = "process_string" =>
        LET batch == vader_analyze_row([text |-> ret.text])
        IN /\ batch.scored = ret.scored
           /\ json_loads(batch.scores) = ret.score
           /\ batch.sentiment = ret.sentiment

-----------------------------------------------------------------------------
(* The normalizer functions on their own (SpecNorm)                        *)

\* cleanup_single with the strings it hands from step to step: mentionIn is
\* what the mention step receives, hashIn and hashOut what the hash step
\* receives and returns
cleanup_single_steps(tweet) ==
    LET s1 == SubMention(tweet)
        s2 == SubUrl(s1)
        s3 == StripRT(s2)
        s4 == SubHashText(s3)
    IN [mentionIn |-> tweet, hashIn |-> s3, hashOut |-> s4,
        out |-> cleanup_single(tweet)]

\* cleanup's cleaned_text of one row, with the same intermediate strings
cleanup_steps(text) ==
    LET s1 == expand_acronyms(text)
        s2 == Strip(SubMention(s1))
        s3 == Strip(SubUrl(s2))
        s4 == StripRT(s3)
        s5 == SubHashText(s4)
    IN [mentionIn |-> s1, hashIn |-> s4, hashOut |-> s5,
        out |-> cleanup_text(text)]

\* The input of the function under check is drawn by InitNorm and held in
\* ret; each action is one call of one function on it.
CleanupSingle ==
    /\ ret.op = "input"
    /\ ret' = [op |-> "cleanup_single", x |-> ret.x] @@ cleanup_single_steps(ret.x)
    /\ UNCHANGED <<pc, file, sia, entries_table_exists, tableExists,
                   committed, seqDurable, pending, seq>>

Cleanup ==
    /\ ret.op = "input"
    /\ ret' = [op |-> "cleanup", x |-> ret.x] @@ cleanup_steps(ret.x)
    /\ UNCHANGED <<pc, file, sia, entries_table_exists, tableExists,
                   committed, seqDurable, pending, seq>>

ExpandAcronyms ==
    /\ ret.op = "input"
    /\ ret' = [op |-> "expand_acronyms", x |-> ret.x, out |-> expand_acronyms(ret.x)]
    /\ UNCHANGED <<pc, file, sia, entries_table_exists, tableExists,
                   committed, seqDurable, pending, seq>>

\* the longest input is MaxFrags fragments
MaxFrags == 3

Fragments ==
    { RTPrefix, <<"@","a">>, <<"#">>, <<"a">>, <<" ">>, <<"\n">>,
      <<"i","m","o">>, <<"h","t","t">>, <<"p",":","/","/","x">> }

RECURSIVE Concat(_)
Concat(fs) == IF fs = <<>> THEN <<>> ELSE Head(fs) \o Concat(Tail(fs))

NormInputs == {Concat(fs) : fs \in SeqsUpTo(Fragments, MaxFrags)}

InitNorm ==
    /\ pc = "down"
    /\ file = <<>>
    /\ sia \in [ScoredStrings -> {0}]
    /\ entries_table_exists = FALSE
    /\ tableExists = FALSE
    /\ committed = <<>>
    /\ seqDurable = 0
    /\ pending = <<>>
    /\ seq = 0
    /\ ret \in {[op |-> "input", x |-> x] : x \in NormInputs}

NextNorm ==
    \/ CleanupSingle
    \/ Cleanup
    \/ ExpandAcronyms

SpecNorm == InitNorm /\ [][NextNorm]_vars

\* C11: cleanup_single applied to its own result returns that result
C11_Idempotent ==
    ret.op = "cleanup_single" => cleanup_single(ret.out) = ret.out

\* s without every '#' that starts a token: one at the start of the string
\* or directly after whitespace (atStart says that s begins a token)
RECURSIVE StripTokenHash(_, _)
StripTokenHash(atStart, s) ==
    IF s = <<>> THEN <<>>
    ELSE IF Head(s) = "#" /\ atStart
         THEN StripTokenHash(FALSE, Tail(s))
         ELSE <<Head(s)>> \o StripTokenHash(Head(s) \in Whitespace, Tail(s))

\* C16: in cleanup and in cleanup_single the hash step removes a '#' exactly
\* when it is the first character of a token, and keeps every other '#', also
\* one directly after a word character
C16_TokenHashStripped ==
    ret.op \in {"cleanup", "cleanup_single"} =>
        ret.hashOut = StripTokenHash(TRUE, ret.hashIn)

\* the key that is a whole token at the start of s, where afterWord says that
\* the character before s is a word character; 0 if none
WholeTokenAt(afterWord, s) ==
    LET hits == {k \in DOMAIN AcronymKeys :
                    /\ ~afterWord
                    /\ Len(s) >= Len(AcronymKeys[k])
                    /\ UpperStr(Take(s, Len(AcronymKeys[k]))) = AcronymKeys[k]
                    /\ (Len(s) > Len(AcronymKeys[k]) =>
                           s[Len(AcronymKeys[k]) + 1] \notin WordChars)}
    IN IF hits = {} THEN 0 ELSE CHOOSE k \in hits : TRUE

\* s with every token that equals a key, whatever its case, replaced by the
\* key's expansion, and nothing else changed
RECURSIVE ExpandWholeTokens(_, _)
ExpandWholeTokens(afterWord, s) ==
    IF s = <<>> THEN <<>>
    ELSE IF WholeTokenAt(afterWord, s) > 0
         THEN AcronymValues[WholeTokenAt(afterWord, s)]
                  \o ExpandWholeTokens(TRUE, Drop(s, Len(AcronymKeys[WholeTokenAt(afterWord, s)])))
         ELSE <<Head(s)>> \o ExpandWholeTokens(Head(s) \in WordChars, Tail(s))

\* C17: expand_acronyms replaces exactly the tokens that equal a key as a
\* whole, leaving a token that only contains a key unchanged, and both
\* cleanup and cleanup_single hand its result to their next step
C17_WholeTokenAcronyms ==
    /\ ret.op = "expand_acronyms" => ret.out = ExpandWholeTokens(FALSE, ret.x)
    /\ ret.op \in {"cleanup", "cleanup_single"} =>
          ret.mentionIn = expand_acronyms(ret.x)

-----------------------------------------------------------------------------
(* database.py: get_word_counts_db, and GET /word_counts                   *)

RECURSIVE JoinTexts_nosep(_)
JoinTexts_nosep(texts) ==
    IF texts = <<>> THEN <<>> ELSE Head(texts) \o JoinTexts_nosep(Tail(texts))

\* ' '.join(row[0] for row in rows)
RECURSIVE JoinTexts(_)
JoinTexts(texts) ==
    IF texts = <<>> THEN <<>>
    ELSE IF Len(texts) = 1 THEN texts[1]
    ELSE Head(texts) \o <<" ">> \o JoinTexts(Tail(texts))

\* re.findall(r'\b\w+\b', s): the maximal runs of word characters, in order
RECURSIVE FindWords(_)
FindWords(s) ==
    IF s = <<>> THEN <<>>
    ELSE IF Head(s) \in WordChars
         THEN <<Take(s, SpanLen(s, WordChars))>>
                  \o FindWords(Drop(s, SpanLen(s, WordChars)))
         ELSE FindWords(Tail(s))

\* Counter(words).items(): each word once, in the order of its first
\* occurrence, with the number of its occurrences
RECURSIVE Counter(_)
Counter(words) ==
    IF words = <<>> THEN <<>>
    ELSE LET w == Head(words)
             n == Cardinality({i \in DOMAIN words : words[i] = w})
         IN <<[word |-> w, count |-> n]>>
                \o Counter(SelectSeq(Tail(words), LAMBDA v : v # w))

\* sorted(items, key=lambda item: item[1], reverse=True): a stable sort, items
\* of equal count stay in their order
RECURSIVE SortedByCount(_)
SortedByCount(items) ==
    IF items = <<>> THEN <<>>
    ELSE LET init == SortedByCount(Take(items, Len(items) - 1))
             last == items[Len(items)]
             ahead == Cardinality({i \in DOMAIN init : init[i].count >= last.count})
         IN Take(init, ahead) \o <<last>> \o Drop(init, ahead)

\* get_word_counts_db: the dict it returns, as its items in order
get_word_counts_db ==
    LET all_texts == JoinTexts([i \in DOMAIN Visible |-> Visible[i].cleaned_text])
        words == FindWords(LowerStr(all_texts))
    IN SortedByCount(Counter(words))

\* GET /word_counts
get_word_counts ==
    /\ accepting_requests
    /\ ret' = [op |-> "get_word_counts", counts |-> get_word_counts_db]
    /\ UNCHANGED <<pc, file, sia, entries_table_exists, tableExists, committed,
                   seqDurable, pending, seq>>

MaxWordRows == 3

\* texts that cleanup leaves as they are: "a b b", "b c", "B", "ab"
WordTexts ==
    { <<"a"," ","b"," ","b">>, <<"b"," ","c">>, <<"B">>, <<"a","b">> }

\* a serving process whose store holds any rows with these texts
InitWords ==
    /\ pc = "serving"
    /\ file = <<>>
    /\ sia \in [WordTexts -> {0}]
    /\ entries_table_exists = TRUE
    /\ tableExists = TRUE
    /\ \E texts \in SeqsUpTo(WordTexts, MaxWordRows) :
          /\ committed = IngestedRows(texts, [i \in DOMAIN texts |-> <<2018, 1, 15>>])
          /\ seqDurable = Len(texts)
          /\ seq = Len(texts)
    /\ pending = <<>>
    /\ ret = NoRet

NextWords == get_word_counts

SpecWords == InitWords /\ [][NextWords]_vars

\* the occurrences of word tokens in the rows: <<i, a, b>> when characters a
\* to b of row i's cleaned_text are word characters with none before or after
TokenOccurrences ==
    {t \in UNION {{<<i, a, b>> : a \in 1..Len(Visible[i].cleaned_text),
                                 b \in 1..Len(Visible[i].cleaned_text)} :
                     i \in DOMAIN Visible} :
        LET s == Visible[t[1]].cleaned_text
        IN /\ t[2] <= t[3]
           /\ \A k \in t[2]..t[3] : s[k] \in WordChars
           /\ (t[2] > 1 => s[t[2] - 1] \notin WordChars)
           /\ (t[3] < Len(s) => s[t[3] + 1] \notin WordChars)}

\* the token of an occurrence, its case folded
TokenOf(t) == LowerStr(SubSeq(Visible[t[1]].cleaned_text, t[2], t[3]))

\* C12: get_word_counts_db lists exactly the case-folded word tokens of the
\* cleaned_text values, each once with the number of its occurrences over
\* all rows, a token never spanning two rows, in non-increasing order of count
C12_WordCounts ==
    ret.op = "get_word_counts" =>
        /\ {ret.counts[k].word : k \in DOMAIN ret.counts}
              = {TokenOf(t) : t \in TokenOccurrences}
        /\ \A k, l \in DOMAIN ret.counts :
              k < l => /\ ret.counts[k].word # ret.counts[l].word
                       /\ ret.counts[k].count >= ret.counts[l].count
        /\ \A k \in DOMAIN ret.counts :
              ret.counts[k].count =
                  Cardinality({t \in TokenOccurrences : TokenOf(t) = ret.counts[k].word})

\* C12 witness: rows "a b b" and "b c" give b: 3 first, then a: 1 and c: 1
C12_Witness ==
    /\ ret.op = "get_word_counts"
    /\ Len(Visible) = 2
    /\ Visible[1].cleaned_text = <<"a"," ","b"," ","b">>
    /\ Visible[2].cleaned_text = <<"b"," ","c">>
    /\ ret.counts = << [word |-> <<"b">>, count |-> 3],
                       [word |-> <<"a">>, count |-> 1],
                       [word |-> <<"c">>, count |-> 1] >>

-----------------------------------------------------------------------------
(* GET /top_n_similar_texts: the candidate corpus (SpecSim)                *)

\* C14: top_n_similar_texts answers 404 exactly when no row has the id;
\* otherwise the corpus it ranks is exactly the rows with another id, in
\* store order, every text it returns is the text of such a row, and so the
\* source's text is returned only when another row holds it
C14_OwnRowExcluded ==
    ret.op = "top_n_similar_texts" =>
        LET source == {i \in DOMAIN Visible : Visible[i].id = ret.id}
            others == SelectSeq(Visible, LAMBDA r : r.id # ret.id)
        IN /\ ret.status = 404 <=> source = {}
           /\ ret.status # 404 =>
                 /\ ret.df = [i \in DOMAIN others |->
                                 [text |-> others[i].text,
                                  embedding |-> json_loads(others[i].embedding)]]
                 /\ \A k \in DOMAIN ret.order :
                       /\ ret.order[k] \in DOMAIN others
                       /\ ret.texts[k] = others[ret.order[k]].text
                 /\ \A k \in DOMAIN ret.texts, i \in source :
                       ret.texts[k] = Visible[i].text =>
                           \E j \in DOMAIN Visible :
                               j # i /\ Visible[j].text = Visible[i].text

\* C14 witness: all texts of a two-row corpus were returned for a source
\* whose text no other row holds
C14_Witness ==
    /\ ret.op = "top_n_similar_texts"
    /\ ret.status = 200
    /\ Len(Visible) = 3
    /\ Len(ret.texts) = 2
    /\ \A i \in DOMAIN Visible :
          Visible[i].id = ret.id =>
              \A k \in DOMAIN ret.texts : ret.texts[k] # Visible[i].text

\* C15: when top_n exceeds the size c of the corpus, c = 0 included,
\* top_n_similar_texts raises nothing and returns all c texts, descending in
\* similarity
C15_FewerThanN ==
    (/\ ret.op = "top_n_similar_texts"
     /\ ret.status # 404
     /\ ret.top_n > Len(ret.df)) =>
        /\ ret.status = 200
        /\ Len(ret.texts) = Len(ret.df)
        /\ \A i, j \in DOMAIN ret.order :
              i < j => ~SimGreater(ret.query, ret.df[ret.order[j]].embedding,
                                   ret.df[ret.order[i]].embedding)

-----------------------------------------------------------------------------
(* Every operation on the store, on one connection (SpecCore)              *)

\* await create_table(conn): the schema check, which creates the table and
\* commits when the table is absent
CreateTable ==
    /\ ret' = [op |-> "create_table", table_existed |-> create_table_returns]
    /\ IF tableExists
       THEN UNCHANGED <<tableExists, committed, seqDurable, pending, seq>>
       ELSE /\ tableExists' = TRUE
            /\ committed' = committed \o pending
            /\ pending' = <<>>
            /\ seqDurable' = seq
            /\ UNCHANGED seq
    /\ UNCHANGED <<pc, file, sia, entries_table_exists>>

\* get_all_entries: SELECT * FROM entries
get_all_entries == Visible

\* GET /entries/: text = row[1], scores = json.loads(row[3]), sentiment = row[4]
read_entries ==
    /\ accepting_requests
    /\ ret' = [op |-> "read_entries",
               entries |-> [i \in DOMAIN get_all_entries |->
                               [text |-> get_all_entries[i].text,
                                scores |-> json_loads(get_all_entries[i].scores),
                                sentiment |-> get_all_entries[i].sentiment]]]
    /\ UNCHANGED <<pc, file, sia, entries_table_exists, tableExists, committed,
                   seqDurable, pending, seq>>

\* GET /entries_by_id/: 422 when start_id or end_id is below 1 (Query(ge=1)),
\* otherwise the rows of SELECT id, text, sentiment ... WHERE id BETWEEN ? AND ?
get_entries_by_id(start_id, end_id) ==
    /\ accepting_requests
    /\ LET rows == SelectSeq(Visible, LAMBDA r : start_id <= r.id /\ r.id <= end_id)
       IN ret' = IF start_id < 1 \/ end_id < 1
                 THEN [op |-> "get_entries_by_id", start |-> start_id,
                       end |-> end_id, status |-> 422, entries |-> <<>>]
                 ELSE [op |-> "get_entries_by_id", start |-> start_id,
                       end |-> end_id, status |-> 200,
                       entries |-> [i \in DOMAIN rows |->
                                       [id |-> rows[i].id, text |-> rows[i].text,
                                        sentiment |-> rows[i].sentiment]]]
    /\ UNCHANGED <<pc, file, sia, entries_table_exists, tableExists, committed,
                   seqDurable, pending, seq>>

\* the arguments of the retrieval operations
CoreDateArgs == {clean_date(<<2018, 1, 15>>), clean_date(<<2018, 1, 31>>)}
CoreKeywords == {<<"b">>}
MaxId == 2

NextCore ==
    \/ CreateTable
    \/ \E entries \in SeqsUpTo(DbEntries, MaxBatch) : AddEntries(entries)
    \/ Reconnect
    \/ read_entries
    \/ GetRandomEntry
    \/ \E a, b \in CoreDateArgs : FilterEntriesByDate(a, b)
    \/ \E keyword \in CoreKeywords : SearchTweetsByKeyword(keyword)
    \/ get_word_counts
    \/ \E start_id, end_id \in 0..MaxId : get_entries_by_id(start_id, end_id)
    \/ \E id \in 1..MaxId, top_n \in 1..MaxId : top_n_similar_texts(id, top_n)

SpecCore == InitDb /\ [][NextCore]_vars

\* C13: get_entries_by_id rejects a range with start > end, and for
\* start <= end returns exactly the rows with start <= id <= end
C13_IdRange ==
    ret.op = "get_entries_by_id" =>
        /\ ret.start > ret.end => ret.status # 200
        /\ (1 <= ret.start /\ ret.start <= ret.end) =>
              LET rows == SelectSeq(Visible, LAMBDA r : ret.start <= r.id /\ r.id <= ret.end)
              IN /\ ret.status = 200
                 /\ ret.entries = [i \in DOMAIN rows |->
                                      [id |-> rows[i].id, text |-> rows[i].text,
                                       sentiment |-> rows[i].sentiment]]

\* the operations that only read
RetrievalOps ==
    {"read_entries", "get_random_entry", "filter_entries_by_date",
     "search_tweets_by_keyword", "get_word_counts", "get_entries_by_id",
     "top_n_similar_texts"}

\* C18: in every step the committed rows stay, in place, with their ids and
\* all their columns, new rows are only appended, and a step of a retrieval
\* operation or of the schema check changes nothing in the store
C18_AppendOnly ==
    [][ /\ Len(committed') >= Len(committed)
        /\ SubSeq(committed', 1, Len(committed)) = committed
        /\ (ret' # ret /\ ret'.op \in RetrievalOps \cup {"create_table"}) =>
              /\ committed' = committed
              /\ pending' = pending
              /\ tableExists' = tableExists ]_vars

\* C18 witness: rows were committed on top of committed rows, and then read
C18_Witness ==
    /\ Len(committed) >= 3
    /\ pending = <<>>
    /\ ret.op = "read_entries"
    /\ Len(ret.entries) = Len(committed)

-----------------------------------------------------------------------------
(* Startup, serving and shutdown of the server (Spec)                      *)

\* C19: a request is handled only in the serving phase, which the startup
\* has reached after the schema check and after the commit of the bulk
\* insert: the connection has no open transaction, the store holds all rows
\* of the ingested corpus or none, and the connection is still open when the
\* request is done
C19_RequestsAfterStartup ==
    [][ (ret' # ret /\ ret'.op \in {"read_random_entry", "process_string"}) =>
            /\ pc = "serving"
            /\ pc' = "serving"
            /\ tableExists
            /\ pending = <<>>
            /\ Len(committed) \in {0, Len(text_and_created(file))} ]_vars

\* C19 witness: a request read a row of a store that holds the two rows
\* ingested at startup
C19_Witness ==
    /\ pc = "serving"
    /\ Len(committed) = 2
    /\ Len(text_and_created(file)) = 2
    /\ ret.op = "read_random_entry"
    /\ ret.status = 200

====
